---- MODULE Spec2Model ----
(***************************************************************************)
(* Jeopardy board (src/script.js): a start/restart button runs            *)
(* setupAndStart, which empties the board and the global categories       *)
(* array and starts an asynchronous acquisition (getCategoryIds, then     *)
(* getCategory).  Each await is a suspension point: the code between two  *)
(* awaits runs to completion, so every action below is one event handler  *)
(* or one resumption with all the synchronous code that follows it.       *)
(***************************************************************************)
EXTENDS Integers, Sequences, FiniteSets, TLC

\* ------------------------------------------------------------ constants
NUM_CATEGORIES == 6
NUM_CLUES == 5
\* upper end of the random offset of the candidate request
OFFSET_RANGE == 7150

\* ------------------------------------------------------------ bounds
\* start/restart triggers in one run
MaxStarts == 2
\* clues of one session that the user moves away from Hidden
MaxTouched == 1
\* Math.random() returns r / RandDen for r in 0 .. RandDen - 1
RandDen == 2

\* candidates in one reply of the source (the request asks for count: 100)
BatchCount == 7

RandomDraws == 0 .. (RandDen - 1)

\* the cells the user clicks: the corners of the grid
ClickColumns == {0, NUM_CATEGORIES - 1}
ClickRows == {0, NUM_CLUES - 1}

VARIABLES categories, board, builds, spinner, btnText, out

vars == <<categories, board, builds, spinner, btnText, out>>

\* ------------------------------------------------------------ JS values
Undefined == <<"undefined">>
Str(s) == <<"string">> \o s
\* `${v}`
TemplateString(v) == IF v = Undefined THEN Str(<<"undefined">>) ELSE v

Min(a, b) == IF a < b THEN a ELSE b
Max(a, b) == IF a > b THEN a ELSE b

\* ------------------------------------------------------------ the source
\* The remote catalog: categories 1 .. CatalogSize; GET is idempotent, so a
\* category's payload is a function of its id.  The offsets the page draws
\* reach the end of the catalog, where a reply holds fewer candidates.
CatalogSize == (OFFSET_RANGE \div 2) + NUM_CATEGORIES - 1
\* categories with fewer than NUM_CLUES clues
ShortIds == {BatchCount}
\* categories whose payload has no title
UntitledIds == {CatalogSize - 2}
\* categories whose payload has an empty clue list, or none at all
EmptyIds == {CatalogSize - 1}
NoCluesIds == {CatalogSize}

\* GET /categories?count=..&offset=o: the ids o+1 .. o+BatchCount that exist
CandidateBatch(o) ==
    [p \in 1 .. Max(0, Min(BatchCount, CatalogSize - o)) |-> [id |-> o + p]]

RawClue(id, p) ==
    [question |-> Str(<<"q", id, p>>), answer |-> Str(<<"a", id, p>>), value |-> p]

ClueCountOf(id) ==
    IF id \in EmptyIds \cup NoCluesIds THEN 0
    ELSE IF id \in ShortIds THEN NUM_CLUES - 1
    ELSE 2 * NUM_CLUES

\* GET /category?id=id; clues is <<>> with hasClues FALSE when the payload
\* has no clues field
CategoryResponse(id) ==
    [title    |-> IF id \in UntitledIds THEN Undefined ELSE Str(<<"title", id>>),
     hasClues |-> id \notin NoCluesIds,
     clues    |-> [p \in 1 .. ClueCountOf(id) |-> RawClue(id, p)]]

\* ------------------------------------------------------------ lodash
\* baseRandom(lower, upper) with Math.random() = r / RandDen
BaseRandom(lower, upper, r) == lower + ((r * (upper - lower + 1)) \div RandDen)

Swap(array, a, b) ==
    [p \in 1 .. Len(array) |-> IF p = a THEN array[b] ELSE IF p = b THEN array[a] ELSE array[p]]

\* shuffleSelf(array, size): index runs over 0 .. size-1 (here 1-based)
RECURSIVE ShuffleSelf(_, _, _, _)
ShuffleSelf(array, index, size, r) ==
    IF index > size THEN SubSeq(array, 1, size)
    ELSE ShuffleSelf(Swap(array, index, 1 + BaseRandom(index - 1, Len(array) - 1, r)),
                     index + 1, size, r)

\* _.sampleSize(array, n)
SampleSize(array, n, r) == ShuffleSelf(array, 1, Min(n, Len(array)), r)

\* a chunking that starts after the first element
ChunkOffByOne(array, size) ==
    IF Len(array) = 0 THEN <<>>
    ELSE <<SubSeq(array, Min(2, Len(array)), Min(size + 1, Len(array)))>>

\* _.chunk(array, size); _.chunk(undefined, size) is []
RECURSIVE Chunk(_, _)
Chunk(array, size) ==
    IF Len(array) = 0 THEN <<>>
    ELSE <<SubSeq(array, 1, Min(size, Len(array)))>>
           \o Chunk(SubSeq(array, Min(size, Len(array)) + 1, Len(array)), size)

\* ------------------------------------------------------------ state
\* out: what the last handler did to the page: for a click on a cell, the
\* cell (tbody g, data-category c, row id k) and what handleClick showed
NoClick == [kind |-> "none", g |-> 0, c |-> 0, k |-> 0]

Pending(b) == builds[b].pc \in {"ids", "cat"}

Init ==
    /\ categories = <<>>
    /\ board = <<>>
    /\ builds = <<>>
    /\ spinner = FALSE
    /\ btnText = "START"
    /\ out = NoClick

\* ------------------------------------------------------------ getCategory
\* the loop body after the await: the category built from one response
CategoryOf(resp) ==
    [title |-> resp.title,
     clues |-> [p \in 1 .. Len(Chunk(resp.clues, NUM_CLUES)[1]) |->
                  [question |-> Chunk(resp.clues, NUM_CLUES)[1][p].question,
                   answer   |-> Chunk(resp.clues, NUM_CLUES)[1][p].answer,
                   showing  |-> "null"]]]

\* _.chunk(...)[0] is undefined, so randomClues.map throws a TypeError
MapThrows(resp) == Len(Chunk(resp.clues, NUM_CLUES)) = 0

\* ------------------------------------------------------------ fillTable
\* categories[i].title of a missing category throws before anything is
\* appended to the board
FillTableThrows(cats) == Len(cats) < NUM_CATEGORIES

Grid(cats) ==
    [head |-> [i \in 1 .. NUM_CATEGORIES |-> TemplateString(cats[i].title)],
     body |-> [i \in 1 .. NUM_CLUES |-> [j \in 1 .. NUM_CATEGORIES |-> Str(<<"?">>)]]]

FillTable(cats, brd) == Append(brd, Grid(cats))

\* ------------------------------------------------------------ setupAndStart
\* the promise of getCategoryIds settles: .then(fillTable, hideLoadingView)
\* and .catch(alert).  rejected: the acquisition itself threw.
\* the async call chain of build b has ended: its locals are gone
Done(build, pc, alerts, renders) ==
    [pc |-> pc, offset |-> 0, ids |-> <<>>, i |-> 0,
     alerts |-> build.alerts + alerts, renders |-> build.renders + renders]

\* a chain without its catch handler: a failure raises no alert
SettleUncaught(b, cats, rejected) ==
    IF rejected \/ FillTableThrows(cats)
    THEN /\ builds' = [builds EXCEPT ![b] = Done(@, "failed", 0, 0)]
         /\ UNCHANGED <<board, spinner, btnText>>
    ELSE /\ builds' = [builds EXCEPT ![b] = Done(@, "ready", 0, 1)]
         /\ board' = FillTable(cats, board)
         /\ spinner' = FALSE
         /\ btnText' = "RESTART"

Settle(b, cats, rejected) ==
    IF rejected \/ FillTableThrows(cats)
    THEN /\ builds' = [builds EXCEPT ![b] = Done(@, "failed", 1, 0)]
         /\ UNCHANGED <<board, spinner, btnText>>
    ELSE /\ builds' = [builds EXCEPT ![b] = Done(@, "ready", 0, 1)]
         /\ board' = FillTable(cats, board)
         /\ spinner' = FALSE
         /\ btnText' = "RESTART"

\* click on the start / restart button
Start ==
    /\ Len(builds) < MaxStarts
    /\ \E r \in RandomDraws :
         builds' = Append(builds,
                     [pc |-> "ids", offset |-> (r * OFFSET_RANGE) \div RandDen,
                      ids |-> <<>>, i |-> 0, alerts |-> 0, renders |-> 0])
    /\ board' = <<>>
    /\ categories' = <<>>
    /\ spinner' = TRUE
    /\ btnText' = "LOADING..."
    /\ out' = NoClick

\* ------------------------------------------------------------ getCategoryIds
\* the candidate request returns: sample the ids, enter getCategory
CandidatesReturn(b) ==
    /\ builds[b].pc = "ids"
    /\ \E r \in RandomDraws :
         LET randomArray == SampleSize(CandidateBatch(builds[b].offset), NUM_CATEGORIES, r)
             ids == [p \in 1 .. Len(randomArray) |-> randomArray[p].id]
         IN  IF Len(ids) = 0
             THEN /\ Settle(b, categories, FALSE)
                  /\ UNCHANGED categories
             ELSE /\ builds' = [builds EXCEPT ![b].pc = "cat", ![b].offset = 0,
                                                ![b].ids = ids, ![b].i = 1]
                  /\ UNCHANGED <<categories, board, spinner, btnText>>
    /\ out' = NoClick

\* the candidate request fails
CandidatesFail(b) ==
    /\ builds[b].pc = "ids"
    /\ Settle(b, categories, TRUE)
    /\ UNCHANGED categories
    /\ out' = NoClick

\* the request of category ids[i] returns
CategoryReturns(b) ==
    /\ builds[b].pc = "cat"
    /\ LET resp == CategoryResponse(builds[b].ids[builds[b].i])
       IN
         IF MapThrows(resp)
         THEN /\ Settle(b, categories, TRUE)
              /\ UNCHANGED categories
         ELSE /\ categories' = Append(categories, CategoryOf(resp))
              /\ IF builds[b].i < Len(builds[b].ids)
                 THEN /\ builds' = [builds EXCEPT ![b].i = @ + 1]
                      /\ UNCHANGED <<board, spinner, btnText>>
                 ELSE Settle(b, categories', FALSE)
    /\ out' = NoClick

\* the request of category ids[i] fails
CategoryFails(b) ==
    /\ builds[b].pc = "cat"
    /\ Settle(b, categories, TRUE)
    /\ UNCHANGED categories
    /\ out' = NoClick

\* ------------------------------------------------------------ handleClick
\* categories[categoryId].clues[clueId] is an object
ClueExists(cats, c, k) == c + 1 <= Len(cats) /\ k + 1 <= Len(cats[c + 1].clues)

\* a reveal cycle that wraps around from the answer to hidden
NextShowingWraps(showing) ==
    IF showing = "null" THEN "question"
    ELSE IF showing = "question" THEN "answer"
    ELSE "null"

NextShowing(showing) ==
    IF showing = "null" THEN "question"
    ELSE IF showing = "question" THEN "answer"
    ELSE showing

\* what the click writes into the clicked cell
Displayed(clue, old) ==
    IF clue.showing = "null" THEN clue.question
    ELSE IF clue.showing = "question" THEN clue.answer
    ELSE old

Outcome(showing) ==
    IF showing = "null" THEN "question"
    ELSE IF showing = "question" THEN "answer"
    ELSE "ignored"

Touched(cats) ==
    {<<c, k>> \in (1 .. Len(cats)) \X (1 .. NUM_CLUES) :
        k <= Len(cats[c].clues) /\ cats[c].clues[k].showing # "null"}

\* a handler that looks the clue up by its category alone and advances every
\* clue of the category
HandleClickWholeCategory(g, c, k) ==
    /\ g \in 1 .. Len(board)
    /\ IF ~ClueExists(categories, c, k)
       THEN /\ out' = [kind |-> "TypeError", g |-> g, c |-> c, k |-> k]
            /\ UNCHANGED <<categories, board>>
       ELSE LET clue == categories[c + 1].clues[k + 1]
            IN  /\ Cardinality(Touched(categories) \cup {<<c + 1, k + 1>>}) <= MaxTouched
                /\ board' = [board EXCEPT ![g].body[k + 1][c + 1] = Displayed(clue, @)]
                /\ categories' = [categories EXCEPT
                                    ![c + 1].clues = [p \in 1 .. Len(@) |->
                                        [@[p] EXCEPT !.showing = NextShowing(clue.showing)]]]
                /\ out' = [kind |-> Outcome(clue.showing), g |-> g, c |-> c, k |-> k]
    /\ UNCHANGED <<builds, spinner, btnText>>

\* click on the cell of row k, column c of the g-th tbody of the board
HandleClick(g, c, k) ==
    /\ g \in 1 .. Len(board)
    /\ IF ~ClueExists(categories, c, k)
       THEN /\ out' = [kind |-> "TypeError", g |-> g, c |-> c, k |-> k]
            /\ UNCHANGED <<categories, board>>
       ELSE LET clue == categories[c + 1].clues[k + 1]
            IN  /\ Cardinality(Touched(categories) \cup {<<c + 1, k + 1>>}) <= MaxTouched
                /\ board' = [board EXCEPT ![g].body[k + 1][c + 1] = Displayed(clue, @)]
                /\ categories' = [categories EXCEPT
                                    ![c + 1].clues[k + 1].showing = NextShowing(@)]
                /\ out' = [kind |-> Outcome(clue.showing), g |-> g, c |-> c, k |-> k]
    /\ UNCHANGED <<builds, spinner, btnText>>

\* ------------------------------------------------------------ specification
Next ==
    \/ Start
    \/ \E b \in 1 .. Len(builds) : CandidatesReturn(b)
    \/ \E b \in 1 .. Len(builds) : CandidatesFail(b)
    \/ \E b \in 1 .. Len(builds) : CategoryReturns(b)
    \/ \E b \in 1 .. Len(builds) : CategoryFails(b)
    \/ \E g \in 1 .. MaxStarts, c \in ClickColumns, k \in ClickRows :
         HandleClick(g, c, k)

Spec == Init /\ [][Next]_vars

\* the pending request of build b returns a response or an error
Responds(b) ==
    CandidatesFail(b) \/ CategoryFails(b) \/ CandidatesReturn(b) \/ CategoryReturns(b)

\* the start triggers and the builds alone: handleClick leaves builds alone
NextBuild ==
    \/ Start
    \/ \E b \in 1 .. Len(builds) : CandidatesReturn(b)
    \/ \E b \in 1 .. Len(builds) : CandidatesFail(b)
    \/ \E b \in 1 .. Len(builds) : CategoryReturns(b)
    \/ \E b \in 1 .. Len(builds) : CategoryFails(b)

\* every issued network request eventually returns
FairSpec ==
    /\ Init
    /\ [][NextBuild]_vars
    /\ \A b \in 1 .. MaxStarts : WF_vars(b <= Len(builds) /\ Responds(b))

\* ------------------------------------------------------------ properties
Rank(showing) ==
    IF showing = "null" THEN 0 ELSE IF showing = "question" THEN 1 ELSE 2

AllColumns == 0 .. (NUM_CATEGORIES - 1)
AllRows == 0 .. (NUM_CLUES - 1)

PendingIn(bs, b) == bs[b].pc \in {"ids", "cat"}

\* build b's last category fetch returns and getCategory returns with it
AcquisitionCompletes(b) ==
    /\ builds[b].pc = "cat"
    /\ builds[b].i = Len(builds[b].ids)
    /\ Len(categories') = Len(categories) + 1

\* a fetch of build b fails: the network call or the handling of its payload
FetchFails(b) ==
    /\ builds[b].pc = "cat"
    /\ builds'[b].pc = "failed"
    /\ categories' = categories

\* build b appends the category it fetched
Pushes(b) ==
    /\ builds[b].pc = "cat"
    /\ builds'[b] # builds[b]
    /\ Len(categories') = Len(categories) + 1

\* build b's then-callback runs fillTable
Renders(b) == builds[b].pc = "cat" /\ builds'[b].pc = "ready"

CompleteSession(cats) ==
    /\ Len(cats) = NUM_CATEGORIES
    /\ \A i \in 1 .. Len(cats) : Len(cats[i].clues) = NUM_CLUES

FullGrid(grid) ==
    /\ Len(grid.head) = NUM_CATEGORIES
    /\ Len(grid.body) = NUM_CLUES
    /\ \A i \in 1 .. Len(grid.body) : Len(grid.body[i]) = NUM_CATEGORIES

SessionShape ==
    [][\A b \in 1 .. Len(builds) :
         AcquisitionCompletes(b) => CompleteSession(categories')]_vars

\* C3: every cell of a rendered grid resolves to a clue of the session, and
\* no click looks up a clue that does not exist.
AddressingValid ==
    /\ out.kind # "TypeError"
    /\ Len(board) > 0 =>
         \A c \in AllColumns, k \in AllRows : ClueExists(categories, c, k)

\* C4: when a per-category fetch of a build fails, the categories array is
\* empty, no grid is on the board and the build has raised one alert.
FailureAtomicity ==
    [][\A b \in 1 .. Len(builds) :
         FetchFails(b) =>
            /\ categories' = <<>>
            /\ board' = <<>>
            /\ builds'[b].alerts = 1]_vars

\* C5: the board is empty, or holds one full grid over a complete session.
NoPartialBoard ==
    \/ board = <<>>
    \/ /\ Len(board) = 1
       /\ FullGrid(board[1])
       /\ CompleteSession(categories)

\* C6: the categories array is empty or holds NUM_CATEGORIES categories.
SessionEmptyOrComplete == Len(categories) \in {0, NUM_CATEGORIES}

\* C7: fillTable runs only when no build is pending, and once a grid is on
\* the board no category is added and no further grid is rendered until the
\* next start trigger.
AcquisitionBeforeRendering ==
    [][/\ Len(board') > Len(board) =>
            \A b \in 1 .. Len(builds') : ~PendingIn(builds', b)
       /\ (Len(board) > 0 /\ Len(builds') = Len(builds)) =>
            /\ Len(categories') = Len(categories)
            /\ Len(board') = Len(board)]_vars

\* C8: a start trigger empties the session and the board; afterwards only the
\* build of the latest trigger adds categories, and when a grid is rendered
\* every clue of the session is Hidden and every cell of the grid shows '?'.
RestartReplacesSession ==
    [][/\ Len(builds') > Len(builds) => categories' = <<>> /\ board' = <<>>
       /\ \A b \in 1 .. Len(builds) : Pushes(b) => b = Len(builds)
       /\ \A b \in 1 .. Len(builds) :
            Renders(b) =>
               /\ \A i \in 1 .. Len(categories') :
                    \A p \in 1 .. Len(categories'[i].clues) :
                       categories'[i].clues[p].showing = "null"
               /\ \A g \in 1 .. Len(board') :
                    \A i \in 1 .. NUM_CLUES, j \in 1 .. NUM_CATEGORIES :
                       board'[g].body[i][j] = Str(<<"?">>)]_vars

\* C9: when build b renders, the i-th category of the session and the i-th
\* column title of its grid are those fetched for the i-th id b selected.
CategoryOrder ==
    [][\A b \in 1 .. Len(builds) :
         Renders(b) =>
            /\ Len(builds[b].ids) = NUM_CATEGORIES
            /\ \A i \in 1 .. NUM_CATEGORIES :
                 /\ categories'[i].title = CategoryResponse(builds[b].ids[i]).title
                 /\ board'[Len(board')].head[i]
                      = TemplateString(CategoryResponse(builds[b].ids[i]).title)]_vars

\* C10: at most one network request is in flight.
NoParallelFetches ==
    Cardinality({b \in 1 .. Len(builds) : Pending(b)}) <= 1

\* the candidate request of build b is answered (or fails) in this step
CandidatesAnswered(b) == builds[b].pc = "ids" /\ builds'[b].pc # "ids"

Distinct(seq) == \A p, q \in 1 .. Len(seq) : p # q => seq[p] # seq[q]

\* C11: when the candidate request of a build fails or returns fewer than
\* NUM_CATEGORIES candidates, the build fails in that very step with one
\* alert, and no category of it is ever put into the categories array.
InsufficientCandidatesFail ==
    [][\A b \in 1 .. Len(builds) :
         /\ (CandidatesAnswered(b)
               /\ Len(CandidateBatch(builds[b].offset)) < NUM_CATEGORIES) =>
              /\ builds'[b].pc = "failed"
              /\ builds'[b].alerts = 1
              /\ categories' = categories
         /\ Pushes(b) => Len(builds[b].ids) >= NUM_CATEGORIES]_vars

\* C12: no category whose payload lacked its title or its clues is in the
\* categories array.
NoMalformedCategory ==
    \A i \in 1 .. Len(categories) :
       /\ categories[i].title # Undefined
       /\ Len(categories[i].clues) > 0

\* C13: the ids a build selects are exactly NUM_CATEGORIES ids, pairwise
\* distinct, each the id of a candidate of the batch the source returned.
IdSelection ==
    [][\A b \in 1 .. Len(builds) :
         (CandidatesAnswered(b) /\ builds'[b].pc = "cat") =>
            /\ Len(builds'[b].ids) = NUM_CATEGORIES
            /\ Distinct(builds'[b].ids)
            /\ \A p \in 1 .. Len(builds'[b].ids) :
                 \E q \in 1 .. Len(CandidateBatch(builds[b].offset)) :
                    CandidateBatch(builds[b].offset)[q].id = builds'[b].ids[p]]_vars

\* C14: the clues a build stores for a category are the first NUM_CLUES clues
\* of the response (all of them when it holds fewer), in the response's
\* order, each with the question and answer of the raw clue at its position
\* and showing Hidden.
CluePrefix ==
    [][\A b \in 1 .. Len(builds) :
         Pushes(b) =>
            LET raw    == CategoryResponse(builds[b].ids[builds[b].i]).clues
                stored == categories'[Len(categories')].clues
            IN  /\ Len(stored) = Min(NUM_CLUES, Len(raw))
                /\ \A p \in 1 .. Len(stored) :
                     stored[p] = [question |-> raw[p].question,
                                  answer   |-> raw[p].answer,
                                  showing  |-> "null"]]_vars

\* C14 witness: a category whose response held more than NUM_CLUES clues is
\* stored with NUM_CLUES clues, the last being the response's NUM_CLUES-th
PrefixOfLongResponseStored ==
    \E i \in 1 .. Len(categories), id \in 1 .. BatchCount :
       /\ Len(CategoryResponse(id).clues) > NUM_CLUES
       /\ categories[i].title = CategoryResponse(id).title
       /\ Len(categories[i].clues) = NUM_CLUES
       /\ categories[i].clues[NUM_CLUES].question
            = CategoryResponse(id).clues[NUM_CLUES].question

OverlappingBuildsIsolated ==
    [][/\ \A b \in 1 .. Len(builds) : Renders(b) => b = Len(builds)
       /\ (/\ Len(builds') > 0
           /\ \A b \in 1 .. Len(builds') : ~PendingIn(builds', b)
           /\ builds'[Len(builds')].pc = "ready") =>
            /\ Len(categories') = NUM_CATEGORIES
            /\ Len(board') = 1]_vars

\* C18: every cell of every rendered grid shows '?' when its clue is Hidden,
\* the clue's question when it is at Question and its answer when at Answer.
DisplayAgreesWithState ==
    \A g \in 1 .. Len(board), c \in AllColumns, k \in AllRows :
       ClueExists(categories, c, k) =>
          LET clue == categories[c + 1].clues[k + 1]
              cell == board[g].body[k + 1][c + 1]
          IN  /\ clue.showing = "null" => cell = Str(<<"?">>)
              /\ clue.showing = "question" => cell = clue.question
              /\ clue.showing = "answer" => cell = clue.answer

\* C19: after the first start trigger the spinner is shown and the button
\* reads LOADING... exactly while a build is pending; otherwise the spinner
\* is hidden and the button reads RESTART.
LoadingTracksAcquisition ==
    Len(builds) > 0 =>
       IF \E b \in 1 .. Len(builds) : Pending(b)
       THEN spinner /\ btnText = "LOADING..."
       ELSE ~spinner /\ btnText = "RESTART"

\* C15: while the requests of a build are pending it has neither rendered
\* nor alerted; once its chain has ended it has done exactly one of the two;
\* and, every request returning, every started build ends.
EveryStartOneOutcome ==
    /\ [](\A b \in 1 .. Len(builds) :
            IF Pending(b)
            THEN builds[b].alerts = 0 /\ builds[b].renders = 0
            ELSE /\ builds[b].alerts + builds[b].renders = 1
                 /\ builds[b].pc = "ready" <=> builds[b].renders = 1)
    /\ \A b \in 1 .. MaxStarts :
         (Len(builds) >= b) ~> (Len(builds) >= b /\ ~Pending(b))

\* C15 witness: one build has ended in the alert and another in a rendered grid
BothOutcomesSeen ==
    \E a, b \in 1 .. Len(builds) :
       /\ builds[a].pc = "failed" /\ builds[a].alerts = 1 /\ builds[a].renders = 0
       /\ builds[b].pc = "ready" /\ builds[b].renders = 1 /\ builds[b].alerts = 0

====
